---- MODULE Spec2Model ----
(***************************************************************************)
(* The pizza endpoint of the API service: POST /pizza is handled by        *)
(* process_pizza_request, which builds a PizzaService (and with it the     *)
(* backend adapter the configuration selects), delegates to the adapter's  *)
(* process_message and turns the returned dict into a PizzaResponse.       *)
(*                                                                         *)
(* Every request is one asyncio task on a single event loop.  `loop` is    *)
(* the task that occupies the loop thread (0: none).  A task gives the     *)
(* loop up only at an await that performs I/O; the synchronous Azure SDK   *)
(* calls of PizzaAgent keep it.  The external AI service is the variables  *)
(* remote_agent and threads; each remote call takes its outcome (success,  *)
(* or an exception with a description) as a nondeterministic input.        *)
(***************************************************************************)
EXTENDS Integers, Sequences, FiniteSets, TLC

\* ------------------------------------------------------------------ bounds
\* Number of inbound POST /pizza requests of one run.
NumReqs == 2

Reqs == 1..NumReqs

\* Number of fragments an Authorization header value is put together from.
MaxParts == 3

\* ------------------------------------------------------------ value domains
\* Python's None, and the absence of a key in a result dict.
None == "<None>"
Missing == "<missing>"

\* BackendType (config.py)
AZURE_AI_AGENT == "azure_ai_agent"
SEMANTIC_KERNEL == "semantic_kernel"
SEMANTIC_KERNEL_AGENT == "semantic_kernel_agent"
BackendType == {AZURE_AI_AGENT, SEMANTIC_KERNEL, SEMANTIC_KERNEL_AGENT}

\* Identifiers the external service mints: the n-th thread, the n-th message.
ThreadName(n) == "thread_" \o ToString(n)
MessageName(n) == "msg_" \o ToString(n)

\* A ref the external service never minted.
Ghost == "does-not-exist"

\* PizzaRequest.thread_id: str | None.  A caller may send no ref, the empty
\* string, a ref of this service (minted already or not yet) or a foreign one.
CallerRefs == {None, "", Ghost} \cup {ThreadName(n) : n \in Reqs}

\* PizzaRequest.message
UserText == "How do I make Neapolitan dough?"

\* Text of an assistant turn, as the remote model produces it.
AgentTexts == {"", "Use 00 flour."}

\* str(e) of an exception raised by a remote call.
ErrorTexts == {"", "service unavailable"}

\* Outcome of a remote call: it returns, or raises an exception e.
Ok == [ok |-> TRUE, err |-> ""]
Raise(e) == [ok |-> FALSE, err |-> e]
Outcomes == {Ok} \cup {Raise(e) : e \in ErrorTexts}

\* MessageRole (azure.ai.projects.models)
USER == "user"
AGENT == "assistant"

\* ------------------------------------------------ health check value domains
\* A str is the sequence of its characters.
Bearer == <<"B", "e", "a", "r", "e", "r", " ">>

\* The token the settings fall back to when HEALTH_CHECK_TOKEN is not set.
DefaultToken ==
    <<"v", "h", "7", "E", "B", "W", "c", "Z", "q", "4", "k", "P", "9", "X",
    "m", "N", "2", "s", "Y", "g", "T", "8", "J", "H", "3", "a", "R", "d",
    "6", "M", "u", "Q">>

\* Tokens an operator may set HEALTH_CHECK_TOKEN to.
EnvTokens == {<<"s", "3", "c", "r", "e", "t">>, <<"k", " ", "B", "e", "a", "r", "e", "r", " ", "k">>}

Tokens == {DefaultToken} \cup EnvTokens

\* Pieces a client may put an Authorization header value together from.
HeaderFragments ==
    Tokens \cup {Bearer, <<"B", "e", "a", "r", "e", "r">>, <<"b", "e", "a", "r", "e", "r", " ">>, <<"x">>, <<" ">>}

RECURSIVE Concatenations(_)
Concatenations(n) ==
    IF n = 0 THEN {<<>>}
    ELSE LET shorter == Concatenations(n - 1)
         IN  shorter \cup {s \o f : s \in shorter, f \in HeaderFragments}

\* Header(None): the header is absent, or it has a value.
NoHeader == [given |-> FALSE, value |-> <<>>]
Headers == {NoHeader} \cup
           {[given |-> TRUE, value |-> v] : v \in Concatenations(MaxParts)}

\* status.HTTP_200_OK, status.HTTP_401_UNAUTHORIZED
HTTP_200_OK == 200
HTTP_401_UNAUTHORIZED == 401

\* ------------------------------------------------------------------- state
VARIABLES
    backend_type,   \* settings.backend_type, read from BACKEND_TYPE at import
    env_conn,       \* whether PROJECT_CONNECTION_STRING is in os.environ
    remote_agent,   \* external service: a "pizza-agent" definition exists
    threads,        \* external service: thread id -> its turns, oldest first
    loop,           \* the request whose task runs on the event loop, or 0
    pc,             \* pc[r]: where request r's task stands
    request,        \* request[r]: the PizzaRequest
    adapter,        \* adapter[r]: the adapter object PizzaService() built for r
    arg,            \* arg[r]: second argument of adapter.process_message
    sdk,            \* sdk[r]: the pending SDK coroutine awaited by r
    result,         \* result[r]: the dict process_message returned
    response,       \* response[r]: the PizzaResponse sent to the caller
    ops,            \* ops[r]: remote operations made for r, in order
    calls,          \* calls[r]: times adapter.process_message was invoked for r
    health_check_token, \* settings.health_check_token, read at import
    authorization,  \* the Authorization header of the last GET /health
    health          \* what health_check answered to it

vars == <<backend_type, env_conn, remote_agent, threads, loop, pc, request,
          adapter, arg, sdk, result, response, ops, calls,
          health_check_token, authorization, health>>

config == <<backend_type, env_conn>>

infra == <<health_check_token, authorization, health>>

\* ----------------------------------------------------------------- helpers
\* Python truthiness of a str | None
Truthy(s) == s # None /\ s # ""

\* A dict with none of the keys the adapters use.
EmptyDict == [status |-> Missing, message |-> Missing, message_id |-> Missing,
              thread_id |-> Missing, conversation_id |-> Missing]

\* The PizzaRequest / PizzaResponse before they exist.
NoRequest == [message |-> Missing, thread_id |-> Missing]
NoResponse == [status |-> Missing, message |-> Missing, message_id |-> Missing,
               thread_id |-> Missing]

\* An adapter object that was not built.
NoAdapter == [kind |-> None, agent |-> None, thread |-> None]

\* No SDK coroutine pending.
NoSdk == [thread |-> None, exc |-> None, reply |-> None, raised |-> FALSE]

\* One remote operation: op on thread tid (None: not scoped to a thread).
Op(name, tid, o) == [op |-> name, tid |-> tid, ok |-> o.ok]

Log(r, entry) == [ops EXCEPT ![r] = Append(@, entry)]

\* The total number of turns the external service holds: ids are minted in order.
RECURSIVE SumLen(_, _)
SumLen(f, S) ==
    IF S = {} THEN 0
    ELSE LET x == CHOOSE y \in S : TRUE IN Len(f[x]) + SumLen(f, S \ {x})

NextThread == ThreadName(Cardinality(DOMAIN threads) + 1)
NextMessage == MessageName(SumLen(threads, DOMAIN threads) + 1)

Turn(role, text) == [role |-> role, id |-> NextMessage, text |-> text]

\* threads with one more thread, empty
WithThread(tid) == [t \in DOMAIN threads \cup {tid} |->
                      IF t \in DOMAIN threads THEN threads[t] ELSE <<>>]

\* -------------------------------------------------------------------- Init
\* No GET /health was answered yet.
NoHealth == [status_code |-> 0, status |-> Missing, detail |-> Missing]

Init ==
    /\ backend_type \in BackendType
    /\ env_conn \in BOOLEAN
    /\ remote_agent \in BOOLEAN
    /\ threads = [t \in {} |-> <<>>]
    /\ loop = 0
    /\ pc = [r \in Reqs |-> "idle"]
    /\ request = [r \in Reqs |-> NoRequest]
    /\ adapter = [r \in Reqs |-> NoAdapter]
    /\ arg = [r \in Reqs |-> None]
    /\ sdk = [r \in Reqs |-> NoSdk]
    /\ result = [r \in Reqs |-> EmptyDict]
    /\ response = [r \in Reqs |-> NoResponse]
    /\ ops = [r \in Reqs |-> <<>>]
    /\ calls = [r \in Reqs |-> 0]
    /\ health_check_token = DefaultToken
    /\ authorization = NoHeader
    /\ health = NoHealth

\* ------------------------------------------------------- request arrival
\* A client posts {message, thread_id}; the framework schedules the handler.
\* Requests are numbered in their order of arrival.
Arrive(r, tid) ==
    /\ pc[r] = "idle"
    /\ \A q \in Reqs : q < r => pc[q] # "idle"
    /\ request' = [request EXCEPT ![r] = [message |-> UserText, thread_id |-> tid]]
    /\ pc' = [pc EXCEPT ![r] = "queued"]
    /\ UNCHANGED <<config, infra, remote_agent, threads, loop, adapter, arg, sdk,
                   result, response, ops, calls>>

\* --------------------------------------------------- PizzaService.__init__
\* Variant of SelectedAdapter without the elif branch.
SelectedAdapter_NoElif ==
    IF backend_type = SEMANTIC_KERNEL THEN "PizzaChatSK"
    ELSE "PizzaAgent"

\* The adapter class the configured backend selects.
SelectedAdapter ==
    IF backend_type = SEMANTIC_KERNEL THEN "PizzaChatSK"
    ELSE IF backend_type = SEMANTIC_KERNEL_AGENT THEN "PizzaAgentSK"
    ELSE "PizzaAgent"

\* The event loop starts the handler tasks in the order they were scheduled,
\* each when the loop thread is free.
Starts(r) ==
    /\ pc[r] = "queued"
    /\ loop = 0
    /\ \A q \in Reqs : q < r => pc[q] # "queued"

\* The handler as an unhandled exception leaves it: the task ends.
Crash(r) ==
    /\ pc' = [pc EXCEPT ![r] = "crashed"]
    /\ loop' = 0

\* Locate-or-create of the "pizza-agent" definition: list_agents with outcome
\* la, then create_agent with outcome ca when none is found.
\* located: an agent definition is in hand;  log: the remote calls made.
LocateOrCreate(la, ca) ==
    LET list == Op("list_agents", None, la)
        create == Op("create_agent", None, ca)
    IN  IF ~la.ok THEN [located |-> FALSE, log |-> <<list>>, exists |-> remote_agent]
        ELSE IF remote_agent
             THEN [located |-> TRUE, log |-> <<list>>, exists |-> TRUE]
        ELSE IF ~ca.ok
             THEN [located |-> FALSE, log |-> <<list, create>>, exists |-> FALSE]
        ELSE [located |-> TRUE, log |-> <<list, create>>, exists |-> TRUE]

\* service = PizzaService() with the Stateless-Chat backend: PizzaChatSK()
\* only stores its system prompt.
InitPizzaChatSK(r) ==
    /\ Starts(r)
    /\ SelectedAdapter = "PizzaChatSK"
    /\ adapter' = [adapter EXCEPT ![r] =
                      [kind |-> "PizzaChatSK", agent |-> None, thread |-> None]]
    /\ pc' = [pc EXCEPT ![r] = "service"]
    /\ loop' = r
    /\ UNCHANGED <<config, infra, remote_agent, threads, request, arg, sdk, result,
                   response, ops, calls>>

\* service = PizzaService() with the Agent-Client backend: PizzaAgent().
\* os.environ[...] raises when the connection string is missing, and
\* _initialize_agent re-raises whatever locate-or-create raised.
InitPizzaAgent(r, la, ca) ==
    /\ Starts(r)
    /\ SelectedAdapter = "PizzaAgent"
    /\ IF ~env_conn
       THEN /\ Crash(r)
            /\ UNCHANGED <<remote_agent, adapter, ops>>
       ELSE LET init == LocateOrCreate(la, ca)
            IN  /\ ops' = [ops EXCEPT ![r] = @ \o init.log]
                /\ remote_agent' = init.exists
                /\ IF init.located
                   THEN /\ adapter' = [adapter EXCEPT ![r] =
                              [kind |-> "PizzaAgent", agent |-> "pizza-agent",
                               thread |-> None]]
                        /\ pc' = [pc EXCEPT ![r] = "service"]
                        /\ loop' = r
                   ELSE /\ Crash(r)
                        /\ UNCHANGED adapter
    /\ UNCHANGED <<config, infra, threads, request, arg, sdk, result, response, calls>>

\* service = PizzaService() with the Alternate-SDK backend: PizzaAgentSK().
\* os.environ[...] is read outside the try; what locate-or-create raises is
\* logged and swallowed, leaving the object without its agent attribute.
InitPizzaAgentSK(r, la, ca) ==
    /\ Starts(r)
    /\ SelectedAdapter = "PizzaAgentSK"
    /\ IF ~env_conn
       THEN /\ Crash(r)
            /\ UNCHANGED <<remote_agent, adapter, ops>>
       ELSE LET init == LocateOrCreate(la, ca)
            IN  /\ ops' = [ops EXCEPT ![r] = @ \o init.log]
                /\ remote_agent' = init.exists
                /\ adapter' = [adapter EXCEPT ![r] =
                      [kind |-> "PizzaAgentSK",
                       agent |-> IF init.located THEN "pizza-agent" ELSE None,
                       thread |-> None]]
                /\ pc' = [pc EXCEPT ![r] = "service"]
                /\ loop' = r
    /\ UNCHANGED <<config, infra, threads, request, arg, sdk, result, response, calls>>

\* ------------------------------------------- PizzaService.process_message
\* Variant of use_thread that forwards the ref to every backend.
use_thread_Always == TRUE

\* Whether the caller's thread_id is handed to the adapter.
use_thread == backend_type # SEMANTIC_KERNEL

\* Variant of Forwarded that never hands the caller's ref on.
Forwarded_Dropped(tid) == None

Forwarded(tid) == IF use_thread THEN tid ELSE None

\* result = await service.process_message(request.message, request.thread_id)
\* up to the call of self.agent.process_message(message, ...).
ServiceProcessMessage(r) ==
    /\ pc[r] = "service"
    /\ loop = r
    /\ arg' = [arg EXCEPT ![r] = Forwarded(request[r].thread_id)]
    /\ calls' = [calls EXCEPT ![r] = @ + 1]
    /\ pc' = [pc EXCEPT ![r] = "process_message"]
    /\ UNCHANGED <<config, infra, remote_agent, threads, loop, request, adapter, sdk,
                   result, response, ops>>

\* ------------------------------------------- PizzaAgent.process_message
Dict(status, message, message_id, thread_id, conversation_id) ==
    [status |-> status, message |-> message, message_id |-> message_id,
     thread_id |-> thread_id, conversation_id |-> conversation_id]

\* Variant of NotFoundResult that echoes the caller's thread_id.
NotFoundResult_Echo(thread_id) ==
    Dict("error", "Thread " \o thread_id \o " not found", Missing, thread_id, Missing)

\* The dict returned when the caller's thread cannot be listed.
NotFoundResult(thread_id) ==
    Dict("error", "Thread " \o thread_id \o " not found", Missing, None, Missing)

\* The dict returned for the assistant turn msg in thread tid.
SuccessResult(msg, tid) == Dict("success", msg.text, msg.id, tid, Missing)

\* The dict returned when the thread holds no assistant turn.
NoResponseResult(tid) ==
    Dict("error", "No response received from agent", Missing, tid, Missing)

\* Variant of ExceptionResult with the exception object, not its str(), as
\* message: a value PizzaResponse does not accept for message: str.
ExceptionResult_Raw(e, self_thread) == Dict("error", None, Missing, self_thread, Missing)

\* The dict the outer except builds: str(e) and getattr(self.thread, 'id', None).
ExceptionResult(e, self_thread) == Dict("error", e, Missing, self_thread, Missing)

\* agents.list_messages(thread_id): the turns of a thread, newest first.
Reverse(s) == [i \in 1..Len(s) |-> s[Len(s) + 1 - i]]
ListMessages(tid) == Reverse(threads[tid])

\* No message: Python's None where a ThreadMessage is expected.
NoMessage == [role |-> None, id |-> None, text |-> None]

\* Variant of GetLastMessageByRole that takes the newest turn, whatever its role.
GetLastMessageByRole_AnyRole(messages, role) ==
    IF Len(messages) = 0 THEN NoMessage ELSE messages[1]

\* messages.get_last_message_by_role(role): the first listed turn of that
\* role, or None.
GetLastMessageByRole(messages, role) ==
    LET hits == {i \in 1..Len(messages) : messages[i].role = role}
    IN  IF hits = {} THEN NoMessage
        ELSE messages[CHOOSE i \in hits : \A j \in hits : i <= j]

\* process_message returns d.
Return(r, d) ==
    /\ result' = [result EXCEPT ![r] = d]
    /\ pc' = [pc EXCEPT ![r] = "return"]

\* if thread_id: list_messages(thread_id) verifies the caller's thread.  An
\* exception of that call, whatever its cause, is answered "not found".
AgentResolveThread(r, o) ==
    /\ pc[r] = "process_message"
    /\ loop = r
    /\ adapter[r].kind = "PizzaAgent"
    /\ Truthy(arg[r])
    /\ LET listed == o.ok /\ arg[r] \in DOMAIN threads
       IN  /\ ops' = Log(r, Op("list_messages", arg[r], [ok |-> listed]))
           /\ IF listed
              THEN /\ adapter' = [adapter EXCEPT ![r].thread = arg[r]]
                   /\ pc' = [pc EXCEPT ![r] = "create_message"]
                   /\ UNCHANGED result
              ELSE /\ Return(r, NotFoundResult(arg[r]))
                   /\ UNCHANGED adapter
    /\ UNCHANGED <<config, infra, remote_agent, threads, loop, request, arg, sdk,
                   response, calls>>

\* Variant of AgentCreateThread that calls create_thread again after a failure
\* instead of reporting it.
AgentCreateThread_Retry(r, o) ==
    /\ pc[r] = "process_message"
    /\ loop = r
    /\ adapter[r].kind = "PizzaAgent"
    /\ ~Truthy(arg[r])
    /\ ops' = Log(r, Op("create_thread", IF o.ok THEN NextThread ELSE None, o))
    /\ IF o.ok
       THEN /\ threads' = WithThread(NextThread)
            /\ adapter' = [adapter EXCEPT ![r].thread = NextThread]
            /\ pc' = [pc EXCEPT ![r] = "create_message"]
       ELSE UNCHANGED <<threads, adapter, pc>>
    /\ UNCHANGED <<config, infra, remote_agent, loop, request, arg, sdk, result,
                   response, calls>>

\* else: self.thread = agents.create_thread()
AgentCreateThread(r, o) ==
    /\ pc[r] = "process_message"
    /\ loop = r
    /\ adapter[r].kind = "PizzaAgent"
    /\ ~Truthy(arg[r])
    /\ ops' = Log(r, Op("create_thread", IF o.ok THEN NextThread ELSE None, o))
    /\ IF o.ok
       THEN /\ threads' = WithThread(NextThread)
            /\ adapter' = [adapter EXCEPT ![r].thread = NextThread]
            /\ pc' = [pc EXCEPT ![r] = "create_message"]
            /\ UNCHANGED result
       ELSE /\ Return(r, ExceptionResult(o.err, adapter[r].thread))
            /\ UNCHANGED <<threads, adapter>>
    /\ UNCHANGED <<config, infra, remote_agent, loop, request, arg, sdk, response, calls>>

\* agents.create_message(thread_id=self.thread.id, role="user", content=message)
AgentCreateMessage(r, o) ==
    /\ pc[r] = "create_message"
    /\ loop = r
    /\ LET tid == adapter[r].thread
       IN  /\ ops' = Log(r, Op("create_message", tid, o))
           /\ IF o.ok
              THEN /\ threads' = [threads EXCEPT ![tid] =
                                    Append(@, Turn(USER, request[r].message))]
                   /\ pc' = [pc EXCEPT ![r] = "run"]
                   /\ UNCHANGED result
              ELSE /\ Return(r, ExceptionResult(o.err, tid))
                   /\ UNCHANGED threads
    /\ UNCHANGED <<config, infra, remote_agent, loop, request, adapter, arg, sdk,
                   response, calls>>

\* agents.create_and_process_run(thread_id, agent_id): the run raises, or ends;
\* a run that ends has added an assistant turn (reply) or none (reply = None).
AgentRun(r, o, reply) ==
    /\ pc[r] = "run"
    /\ loop = r
    /\ LET tid == adapter[r].thread
       IN  /\ ops' = Log(r, Op("run", tid, o))
           /\ IF o.ok
              THEN /\ threads' = IF reply = None THEN threads
                                 ELSE [threads EXCEPT ![tid] =
                                         Append(@, Turn(AGENT, reply))]
                   /\ pc' = [pc EXCEPT ![r] = "list_messages"]
                   /\ UNCHANGED result
              ELSE /\ Return(r, ExceptionResult(o.err, tid))
                   /\ UNCHANGED threads
    /\ UNCHANGED <<config, infra, remote_agent, loop, request, adapter, arg, sdk,
                   response, calls>>

\* messages = agents.list_messages(thread_id=self.thread.id), then the most
\* recent assistant turn decides between the success and the no-response dict.
AgentListMessages(r, o) ==
    /\ pc[r] = "list_messages"
    /\ loop = r
    /\ LET tid == adapter[r].thread
           last_agent_msg == GetLastMessageByRole(ListMessages(tid), AGENT)
       IN  /\ ops' = Log(r, Op("list_messages", tid, o))
           /\ IF ~o.ok THEN Return(r, ExceptionResult(o.err, tid))
              ELSE IF last_agent_msg # NoMessage
                   THEN Return(r, SuccessResult(last_agent_msg, tid))
              ELSE Return(r, NoResponseResult(tid))
    /\ UNCHANGED <<config, infra, remote_agent, threads, loop, request, adapter, arg,
                   sdk, response, calls>>

\* ----------------------------------------- PizzaAgentSK.process_message
\* str(e) of the AttributeError raised by self.agent when __init__ swallowed
\* a failure and never assigned it.
NoAgentAttribute == "'PizzaAgentSK' object has no attribute 'agent'"

\* str(e) of the service's answer for a thread id it does not hold.
NoThreadFound(tid) == "No thread found with id '" \o tid \o "'."

\* The dict built from the SDK's response item.
SKSuccessResult(reply, response_thread) ==
    Dict("success", reply, Missing, response_thread, Missing)

\* The dict the except builds: str(e) and the thread_id argument.
SKExceptionResult(e, thread_id) == Dict("error", e, Missing, thread_id, Missing)

\* thread = AzureAIAgentThread(thread_id=thread_id); the log line reads
\* self.agent.id; then the task awaits self.agent.get_response(...).
SKProcessMessage(r) ==
    /\ pc[r] = "process_message"
    /\ loop = r
    /\ adapter[r].kind = "PizzaAgentSK"
    /\ IF adapter[r].agent = None
       THEN /\ Return(r, SKExceptionResult(NoAgentAttribute, arg[r]))
            /\ UNCHANGED <<loop, sdk>>
       ELSE /\ sdk' = [sdk EXCEPT ![r] = [NoSdk EXCEPT !.thread = arg[r]]]
            /\ pc' = [pc EXCEPT ![r] =
                        IF arg[r] = None THEN "sdk_create_thread"
                        ELSE "sdk_create_message"]
            /\ loop' = 0
            /\ UNCHANGED result
    /\ UNCHANGED <<config, infra, remote_agent, threads, request, adapter, arg,
                   response, ops, calls>>

\* The awaited coroutine ends with exception e.
SdkRaise(r, e) ==
    /\ sdk' = [sdk EXCEPT ![r].raised = TRUE, ![r].exc = e]
    /\ pc' = [pc EXCEPT ![r] = "awaited"]

\* get_response, thread without id: the SDK creates the remote thread.
SdkCreateThread(r, o) ==
    /\ pc[r] = "sdk_create_thread"
    /\ ops' = Log(r, Op("create_thread", IF o.ok THEN NextThread ELSE None, o))
    /\ IF o.ok
       THEN /\ threads' = WithThread(NextThread)
            /\ sdk' = [sdk EXCEPT ![r].thread = NextThread]
            /\ pc' = [pc EXCEPT ![r] = "sdk_create_message"]
       ELSE /\ SdkRaise(r, o.err)
            /\ UNCHANGED threads
    /\ UNCHANGED <<config, infra, remote_agent, loop, request, adapter, arg, result,
                   response, calls>>

\* get_response: the SDK adds the user message to the thread; the service
\* refuses a thread id it does not hold.
SdkCreateMessage(r, o) ==
    /\ pc[r] = "sdk_create_message"
    /\ LET tid == sdk[r].thread
           held == tid \in DOMAIN threads
       IN  /\ ops' = Log(r, Op("create_message", tid, [ok |-> o.ok /\ held]))
           /\ IF o.ok /\ held
              THEN /\ threads' = [threads EXCEPT ![tid] =
                                    Append(@, Turn(USER, request[r].message))]
                   /\ pc' = [pc EXCEPT ![r] = "sdk_run"]
                   /\ UNCHANGED sdk
              ELSE /\ SdkRaise(r, IF o.ok THEN NoThreadFound(tid) ELSE o.err)
                   /\ UNCHANGED threads
    /\ UNCHANGED <<config, infra, remote_agent, loop, request, adapter, arg, result,
                   response, calls>>

\* get_response: the SDK runs the agent on the thread and hands back the
\* assistant turn the run produced, or raises.
SdkRun(r, o, reply) ==
    /\ pc[r] = "sdk_run"
    /\ LET tid == sdk[r].thread
       IN  /\ ops' = Log(r, Op("run", tid, o))
           /\ IF o.ok
              THEN /\ threads' = [threads EXCEPT ![tid] =
                                    Append(@, Turn(AGENT, reply))]
                   /\ sdk' = [sdk EXCEPT ![r].reply = reply]
                   /\ pc' = [pc EXCEPT ![r] = "awaited"]
              ELSE /\ SdkRaise(r, o.err)
                   /\ UNCHANGED threads
    /\ UNCHANGED <<config, infra, remote_agent, loop, request, adapter, arg, result,
                   response, calls>>

\* The await is over and the loop free: the task resumes and builds its dict
\* from response.content.content and response.thread.id, or in the except.
SKResume(r) ==
    /\ pc[r] = "awaited"
    /\ loop = 0
    /\ adapter[r].kind = "PizzaAgentSK"
    /\ loop' = r
    /\ IF sdk[r].raised
       THEN Return(r, SKExceptionResult(sdk[r].exc, arg[r]))
       ELSE Return(r, SKSuccessResult(sdk[r].reply, sdk[r].thread))
    /\ UNCHANGED <<config, infra, remote_agent, threads, request, adapter, arg, sdk,
                   response, ops, calls>>

\* ------------------------------------------ PizzaChatSK.process_message
ChatSuccessResult(reply, conversation_id) ==
    Dict("success", reply, Missing, Missing, conversation_id)

ChatExceptionResult(e, conversation_id) ==
    Dict("error", e, Missing, Missing, conversation_id)

\* Kernel(), AzureAIInferenceChatCompletion(...) (o: it may raise), the chat
\* history and the settings; then the task awaits get_chat_message_content.
ChatProcessMessage(r, o) ==
    /\ pc[r] = "process_message"
    /\ loop = r
    /\ adapter[r].kind = "PizzaChatSK"
    /\ IF o.ok
       THEN /\ pc' = [pc EXCEPT ![r] = "chat_completion"]
            /\ loop' = 0
            /\ UNCHANGED result
       ELSE /\ Return(r, ChatExceptionResult(o.err, arg[r]))
            /\ UNCHANGED loop
    /\ UNCHANGED <<config, infra, remote_agent, threads, request, adapter, arg, sdk,
                   response, ops, calls>>

\* get_chat_message_content: one completion call over the system prompt and
\* the user message; it returns the reply or raises.
SdkChatCompletion(r, o, reply) ==
    /\ pc[r] = "chat_completion"
    /\ ops' = Log(r, Op("chat_completion", None, o))
    /\ IF o.ok
       THEN /\ sdk' = [sdk EXCEPT ![r].reply = reply]
            /\ pc' = [pc EXCEPT ![r] = "awaited"]
       ELSE SdkRaise(r, o.err)
    /\ UNCHANGED <<config, infra, remote_agent, threads, loop, request, adapter, arg,
                   result, response, calls>>

ChatResume(r) ==
    /\ pc[r] = "awaited"
    /\ loop = 0
    /\ adapter[r].kind = "PizzaChatSK"
    /\ loop' = r
    /\ IF sdk[r].raised
       THEN Return(r, ChatExceptionResult(sdk[r].exc, arg[r]))
       ELSE Return(r, ChatSuccessResult(sdk[r].reply, arg[r]))
    /\ UNCHANGED <<config, infra, remote_agent, threads, request, adapter, arg, sdk,
                   response, ops, calls>>

\* ------------------------------------------------- process_pizza_request
\* A keyword PizzaResponse does not declare is ignored; a declared one that
\* is not given takes its default, None.
Default(v) == IF v = Missing THEN None ELSE v

\* status: str and message: str are required.
Validates(d) == d.status \notin {Missing, None} /\ d.message \notin {Missing, None}

PizzaResponse(d) ==
    [status |-> d.status, message |-> d.message,
     message_id |-> Default(d.message_id), thread_id |-> Default(d.thread_id)]

\* return PizzaResponse(**result): the handler's task ends.
HandlerReturn(r) ==
    /\ pc[r] = "return"
    /\ loop = r
    /\ loop' = 0
    /\ IF Validates(result[r])
       THEN /\ response' = [response EXCEPT ![r] = PizzaResponse(result[r])]
            /\ pc' = [pc EXCEPT ![r] = "responded"]
       ELSE /\ pc' = [pc EXCEPT ![r] = "crashed"]
            /\ UNCHANGED response
    /\ UNCHANGED <<config, infra, remote_agent, threads, request, adapter, arg, sdk,
                   result, ops, calls>>

\* ------------------------------------------------------- GET /health
\* str.startswith
StartsWith(s, prefix) ==
    Len(s) >= Len(prefix) /\ SubSeq(s, 1, Len(prefix)) = prefix

\* str.find, 1-based: where sep first occurs in s, 0 if nowhere.
Find(s, sep) ==
    LET at == {i \in 1..(Len(s) - Len(sep) + 1) : SubSeq(s, i, i + Len(sep) - 1) = sep}
    IN  IF at = {} THEN 0 ELSE CHOOSE i \in at : \A j \in at : i <= j

\* str.split(sep): the pieces of s between the occurrences of sep, left to right.
RECURSIVE Split(_, _)
Split(s, sep) ==
    LET i == Find(s, sep)
    IN  IF i = 0 THEN <<s>>
        ELSE <<SubSeq(s, 1, i - 1)>> \o Split(SubSeq(s, i + Len(sep), Len(s)), sep)

Healthy == [status_code |-> HTTP_200_OK, status |-> "healthy", detail |-> Missing]
Unauthorized(detail) ==
    [status_code |-> HTTP_401_UNAUTHORIZED, status |-> Missing, detail |-> detail]

\* authorization.split("Bearer ")[1]
BearerToken(value) == Split(value, Bearer)[2]

health_check(header) ==
    IF ~header.given \/ header.value = <<>> \/ ~StartsWith(header.value, Bearer)
    THEN Unauthorized("Missing Bearer token")
    ELSE IF BearerToken(header.value) # health_check_token
         THEN Unauthorized("Invalid token")
         ELSE Healthy

\* A client sends GET /health with the header; the handler has no await.
HealthCheck(header) ==
    /\ authorization' = header
    /\ health' = health_check(header)
    /\ UNCHANGED <<config, remote_agent, threads, loop, pc, request, adapter,
                   arg, sdk, result, response, ops, calls, health_check_token>>

\* The health endpoint shares no state with the pizza endpoint: it is explored
\* on its own, for every token the settings can hold.
HealthInit ==
    /\ backend_type = SEMANTIC_KERNEL_AGENT
    /\ env_conn = TRUE
    /\ remote_agent = TRUE
    /\ threads = [t \in {} |-> <<>>]
    /\ loop = 0
    /\ pc = [r \in Reqs |-> "idle"]
    /\ request = [r \in Reqs |-> NoRequest]
    /\ adapter = [r \in Reqs |-> NoAdapter]
    /\ arg = [r \in Reqs |-> None]
    /\ sdk = [r \in Reqs |-> NoSdk]
    /\ result = [r \in Reqs |-> EmptyDict]
    /\ response = [r \in Reqs |-> NoResponse]
    /\ ops = [r \in Reqs |-> <<>>]
    /\ calls = [r \in Reqs |-> 0]
    /\ health_check_token \in Tokens
    /\ authorization = NoHeader
    /\ health = NoHealth

HealthNext == \E header \in Headers : HealthCheck(header)

HealthSpec == HealthInit /\ [][HealthNext]_vars

\* ------------------------------------------------------------------- Next
Next ==
    \/ \E r \in Reqs, tid \in CallerRefs : Arrive(r, tid)
    \/ \E r \in Reqs : InitPizzaChatSK(r)
    \/ \E r \in Reqs, la \in Outcomes, ca \in Outcomes : InitPizzaAgent(r, la, ca)
    \/ \E r \in Reqs, la \in Outcomes, ca \in Outcomes : InitPizzaAgentSK(r, la, ca)
    \/ \E r \in Reqs : ServiceProcessMessage(r)
    \/ \E r \in Reqs, o \in Outcomes : AgentResolveThread(r, o)
    \/ \E r \in Reqs, o \in Outcomes : AgentCreateThread(r, o)
    \/ \E r \in Reqs, o \in Outcomes : AgentCreateMessage(r, o)
    \/ \E r \in Reqs, o \in Outcomes, reply \in AgentTexts \cup {None} :
          AgentRun(r, o, reply)
    \/ \E r \in Reqs, o \in Outcomes : AgentListMessages(r, o)
    \/ \E r \in Reqs : SKProcessMessage(r)
    \/ \E r \in Reqs, o \in Outcomes : SdkCreateThread(r, o)
    \/ \E r \in Reqs, o \in Outcomes : SdkCreateMessage(r, o)
    \/ \E r \in Reqs, o \in Outcomes, reply \in AgentTexts : SdkRun(r, o, reply)
    \/ \E r \in Reqs : SKResume(r)
    \/ \E r \in Reqs, o \in Outcomes : ChatProcessMessage(r, o)
    \/ \E r \in Reqs, o \in Outcomes, reply \in AgentTexts :
          SdkChatCompletion(r, o, reply)
    \/ \E r \in Reqs : ChatResume(r)
    \/ \E r \in Reqs : HandlerReturn(r)

Spec == Init /\ [][Next]_vars

\* ---------------------------------------- one PizzaAgent for several calls
\* The adapter classes keep their state in the object (self.agent,
\* self.thread), so that one object can serve process_message calls one after
\* the other.  Here the first call constructs the PizzaAgent and every later
\* call is made on that same object, after the call before it has returned.
SharedInit == Init /\ backend_type = AZURE_AI_AGENT

Construct(la, ca) == InitPizzaAgent(1, la, ca)

\* The next call on the object: self.agent and self.thread are as the call
\* before left them.
Reuse(r) ==
    /\ r > 1
    /\ Starts(r)
    /\ pc[r - 1] = "responded"
    /\ adapter' = [adapter EXCEPT ![r] = adapter[r - 1]]
    /\ pc' = [pc EXCEPT ![r] = "service"]
    /\ loop' = r
    /\ UNCHANGED <<config, infra, remote_agent, threads, request, arg, sdk,
                   result, response, ops, calls>>

SharedNext ==
    \/ \E r \in Reqs, tid \in CallerRefs : Arrive(r, tid)
    \/ \E la \in Outcomes, ca \in Outcomes : Construct(la, ca)
    \/ \E r \in Reqs : Reuse(r)
    \/ \E r \in Reqs : ServiceProcessMessage(r)
    \/ \E r \in Reqs, o \in Outcomes : AgentResolveThread(r, o)
    \/ \E r \in Reqs, o \in Outcomes : AgentCreateThread(r, o)
    \/ \E r \in Reqs, o \in Outcomes : AgentCreateMessage(r, o)
    \/ \E r \in Reqs, o \in Outcomes, reply \in AgentTexts \cup {None} :
          AgentRun(r, o, reply)
    \/ \E r \in Reqs, o \in Outcomes : AgentListMessages(r, o)
    \/ \E r \in Reqs : HandlerReturn(r)

SharedSpec == SharedInit /\ [][SharedNext]_vars

\* ============================================================ properties
\* process_message has returned its dict for r.
Returned(r) == pc[r] \in {"return", "responded"}

Responded(r) == pc[r] = "responded"

\* The backends with conversation continuity.
Continuity == backend_type \in {AZURE_AI_AGENT, SEMANTIC_KERNEL_AGENT}

\* The remote operations of r that are scoped to a thread.
ThreadOps(r) == {i \in DOMAIN ops[r] :
                   ops[r][i].op \in {"create_thread", "create_message", "run",
                                     "list_messages"}}

OpsNamed(r, name) == {i \in DOMAIN ops[r] : ops[r][i].op = name}

\* The sessions the external service minted for r.
Minted(r) == {ops[r][i].tid : i \in {j \in OpsNamed(r, "create_thread") : ops[r][j].ok}}

\* The caller's ref was handed to the adapter and the external service
\* accepted an operation on it.
Resolved(r) ==
    /\ Truthy(arg[r])
    /\ \E i \in ThreadOps(r) : ops[r][i].tid = arg[r] /\ ops[r][i].ok

\* The Agent-Client adapter asked the external service for the caller's thread
\* and the service did not deliver it.
Unresolved(r) ==
    /\ adapter[r].kind = "PizzaAgent"
    /\ Truthy(arg[r])
    /\ \E i \in OpsNamed(r, "list_messages") :
          /\ ops[r][i].tid = arg[r]
          /\ ~ops[r][i].ok
          /\ \A j \in ThreadOps(r) : i <= j

C2_IdempotentNotFound ==
    \A r1, r2 \in Reqs :
        ( /\ Continuity
          /\ r1 < r2
          /\ Responded(r1) /\ Responded(r2)
          /\ request[r1].thread_id = Ghost
          /\ request[r2].thread_id = Ghost )
        => \A r \in {r1, r2} :
              /\ response[r].status = "error"
              /\ response[r].message = "Thread " \o Ghost \o " not found"
              /\ response[r].thread_id = None

LastAgentTurn(tid) ==
    LET hits == {i \in 1..Len(threads[tid]) : threads[tid][i].role = AGENT}
    IN  IF hits = {} THEN 0 ELSE CHOOSE i \in hits : \A j \in hits : j <= i

\* C4: Agent-Client and Alternate-SDK: a successful call without thread_id
\* returns the ref of the one session minted in that call, non-empty; for
\* Agent-Client message and message_id are those of the session's most recent
\* assistant turn at the time of the return.
C4_FreshThread ==
    \A r \in Reqs :
        ( /\ Continuity
          /\ ~Truthy(request[r].thread_id)
          /\ Returned(r)
          /\ result[r].status = "success" )
        => /\ Minted(r) = {result[r].thread_id}
           /\ result[r].thread_id \notin {None, Missing, ""}
           /\ Responded(r) => response[r].thread_id = result[r].thread_id
           /\ (adapter[r].kind = "PizzaAgent" /\ pc[r] = "return") =>
                 LET tid == result[r].thread_id
                     n == LastAgentTurn(tid)
                 IN  /\ n > 0
                     /\ result[r].message = threads[tid][n].text
                     /\ result[r].message_id = threads[tid][n].id

C4_Witness ==
    \E r \in Reqs :
        /\ adapter[r].kind = "PizzaAgent"
        /\ request[r].thread_id = None
        /\ pc[r] = "return"
        /\ result[r].status = "success"
        /\ result[r].message = "Use 00 flour."

\* The body {status, message, message_id?, thread_id?} of the boundary.
WellFormed(b) ==
    /\ b.status \in {"success", "error"}
    /\ b.message \notin {Missing, None}
    /\ b.message_id # Missing
    /\ b.thread_id # Missing

\* r met a failure while process_message ran: a remote operation failed, or
\* the thread held no assistant turn, or the adapter had no agent.
FailedInCall(r) ==
    \/ \E i \in ThreadOps(r) \cup OpsNamed(r, "chat_completion") : ~ops[r][i].ok
    \/ Returned(r) /\ result[r].status = "error"

C6_ResultShape ==
    \A r \in Reqs :
        Returned(r) =>
            /\ result[r].status \in {"success", "error"}
            /\ result[r].message \notin {Missing, None}
            /\ result[r].message # ""

\* The conversation ref field of a result dict.
RefField(d) == IF d.thread_id # Missing THEN d.thread_id ELSE d.conversation_id

\* C7: the ref of every result is the ref of a session minted in this call,
\* or the caller's ref after the external service accepted it in this call,
\* or absent.
C7_RefProvenance ==
    \A r \in Reqs :
        Returned(r) =>
            \/ RefField(result[r]) \in Minted(r)
            \/ RefField(result[r]) = request[r].thread_id /\ Resolved(r)
            \/ RefField(result[r]) \in {None, Missing}

\* The session of the call: the one minted in it, or the caller's once resolved.
SessionOf(r) == Minted(r) \cup (IF Resolved(r) THEN {arg[r]} ELSE {})

\* C8: Agent-Client and Alternate-SDK: once the call has a session, every
\* failure result carries its ref; the failure for a run that left no
\* assistant turn reads "No response received from agent".
C8_FailureKeepsRef ==
    \A r \in Reqs :
        ( /\ Continuity
          /\ Returned(r)
          /\ result[r].status = "error"
          /\ SessionOf(r) # {} )
        => /\ result[r].thread_id \in SessionOf(r)
           /\ (\A i \in ThreadOps(r) : ops[r][i].ok)
                 => result[r].message = "No response received from agent"

\* C9: Stateless-Chat backend: the adapter never receives the caller's ref,
\* and the body sent has no message_id and no thread_id other than, at most,
\* the caller's own value.
C9_Stateless ==
    backend_type = SEMANTIC_KERNEL =>
        \A r \in Reqs :
            /\ arg[r] = None
            /\ Returned(r) => result[r].conversation_id = None
            /\ Responded(r) =>
                  /\ response[r].message_id = None
                  /\ response[r].thread_id \in {None, request[r].thread_id}

C9_Witness ==
    /\ backend_type = SEMANTIC_KERNEL
    /\ \E r1, r2 \in Reqs :
          /\ Responded(r1) /\ Responded(r2)
          /\ request[r1].thread_id = Ghost
          /\ response[r1].status = "success"
          /\ request[r2].thread_id = None
          /\ response[r2].status = "error"

\* The remote operations that change the external service's state.
StateChanging == {"create_thread", "create_message", "run"}

\* C10: no retry.  For one request the service calls the adapter's
\* process_message once; each state-changing remote operation is attempted at
\* most once; a failed remote operation is the last one made for the request,
\* and the call reports it as a failure.
C10_NoRetry ==
    \A r \in Reqs :
        /\ calls[r] <= 1
        /\ Returned(r) => calls[r] = 1
        /\ \A name \in StateChanging : Cardinality(OpsNamed(r, name)) <= 1
        /\ \A i \in DOMAIN ops[r] : ~ops[r][i].ok => i = Len(ops[r])
        /\ (Returned(r) /\ \E i \in DOMAIN ops[r] : ~ops[r][i].ok)
              => result[r].status = "error"

C10_Witness ==
    \E r \in Reqs :
        /\ Responded(r)
        /\ adapter[r].kind = "PizzaAgent"
        /\ Len(ops[r]) >= 2
        /\ ops[r][Len(ops[r])] = Op("create_thread", None, Raise("service unavailable"))
        /\ response[r].message = "service unavailable"

\* The credentials of a request the health check has answered.
Exact == authorization.given /\ authorization.value = Bearer \o health_check_token

\* C11: the health check answers healthy if and only if the Authorization
\* header is exactly "Bearer " followed by the configured token; every other
\* header, and a missing one, is answered unauthorized.
C11_ExactCredential ==
    health # NoHealth =>
        /\ health \in {Healthy, Unauthorized("Missing Bearer token"),
                       Unauthorized("Invalid token")}
        /\ health = Healthy <=> Exact

\* The remote operations of that name made for all the requests together.
AllOpsNamed(name) == UNION {{<<r, i>> : i \in OpsNamed(r, name)} : r \in Reqs}

\* C12: with the Agent-Client backend the agent definition is located or
\* created once for all the requests of the process: at most one list_agents
\* lookup and at most one create_agent call are made in total.
C12_LocatedOnce ==
    backend_type = AZURE_AI_AGENT =>
        /\ Cardinality(AllOpsNamed("list_agents")) <= 1
        /\ Cardinality(AllOpsNamed("create_agent")) <= 1

\* The constructor of r's adapter met an error: it raised before
\* process_message was called, or (PizzaAgentSK) it left the object without
\* its agent.
InitError(r) ==
    \/ pc[r] = "crashed" /\ calls[r] = 0
    \/ adapter[r].kind = "PizzaAgentSK" /\ adapter[r].agent = None

\* C13: an initialization error is fatal and met at startup only: a process
\* in which one occurs serves no request, and a process that serves requests
\* never meets one.
C13_InitErrorFatal ==
    (\E r \in Reqs : InitError(r)) => \A q \in Reqs : ~Responded(q)

\* The task of r stands at a remote call of its adapter's process_message:
\* the call is the task's next step, pending until the external service
\* answers.
InRemoteCall(r) ==
    \/ /\ adapter[r].kind = "PizzaAgent"
       /\ pc[r] \in {"process_message", "create_message", "run", "list_messages"}
    \/ /\ adapter[r].kind = "PizzaAgentSK"
       /\ pc[r] \in {"sdk_create_thread", "sdk_create_message", "sdk_run"}
    \/ /\ adapter[r].kind = "PizzaChatSK"
       /\ pc[r] = "chat_completion"

\* C14: a remote call is a suspension point with each of the three adapters:
\* while the call of one request is pending, that request's task does not
\* occupy the event loop, so a request that arrived meanwhile can be started.
C14_SuspensionPoint ==
    \A r, q \in Reqs :
        (InRemoteCall(r) /\ pc[q] = "queued") => loop # r

\* The adapter of a BackendKind.
AdapterOf(kind) ==
    CASE kind = SEMANTIC_KERNEL -> "PizzaChatSK"
      [] kind = SEMANTIC_KERNEL_AGENT -> "PizzaAgentSK"
      [] OTHER -> "PizzaAgent"

C16_OwnSession ==
    \A r \in Reqs :
        (Returned(r) /\ adapter[r].kind = "PizzaAgent") =>
            result[r].thread_id \in SessionOf(r) \cup {None, Missing}

====
